---- MODULE Spec2Model ----
(***************************************************************************)
(* Model of DataService (src/src/app/data.service.ts): four               *)
(* BehaviorSubjects (people, vehicles, assignments, convoyInfo), the       *)
(* localStorage item 'shavtzak-data', and the synchronous notifications    *)
(* that every BehaviorSubject.next() delivers to its subscribers (the      *)
(* report recomputation output$ of src/src/app/app.ts among them).         *)
(*                                                                         *)
(* One action per DataService method.  A method body is a list of          *)
(* statements: subject.next(value) calls, then saveData(), whose           *)
(* localStorage.setItem may throw.  The action runs the whole body.        *)
(* Delivered is the list of notifications the body's next() calls deliver: *)
(* one per next(), each the state a subscriber reads at that moment.       *)
(***************************************************************************)
EXTENDS Integers, Sequences, FiniteSets, TLC

VARIABLES
  people,       \* peopleSubject.value      : sequence of Person
  vehicles,     \* vehiclesSubject.value    : sequence of Vehicle
  assignments,  \* assignmentsSubject.value : sequence of Assignment
  convoyInfo,   \* convoyInfoSubject.value  : << >> is null, <<c>> is ConvoyInfo c
  stored,       \* localStorage item under STORAGE_KEY
  lastOp,       \* the last DataService call and its argument
  outcome,      \* "returned" or "threw": how the last call ended
  saveFailed,   \* whether localStorage.setItem threw in the last call
  notifiedOld,  \* whether every subscriber notified by the last call found
                \* the item as it was before the call
  emittedAt,    \* the four values generateOutput() read at the latest
                \* emission of App.output$
  failures,     \* number of setItem calls that threw since the last one that stored
  calls,        \* addAssignment arguments of the run (kept by SpecAdd only)
  snapshot,     \* the object exportData() returned last, << >> before any
                \* (kept by SpecAlias only)
  aliased       \* the keys of snapshot whose value is the very object a
                \* subject holds now (kept by SpecAlias only)

vars == <<people, vehicles, assignments, convoyInfo, stored,
          lastOp, outcome, saveFailed, notifiedOld, emittedAt, failures, calls, snapshot, aliased>>

\* ------------------------------------------------------------------ bounds
MaxPeople == 1
MaxVehicles == 2
MaxAssign == 2
MaxFailures == 1
MaxCalls == 3

\* ------------------------------------------------------------- data model
PersonIds == {"1234567", "7654321"}
VehicleIds == {"12345"}

Person == [idNumber : PersonIds, fullName : {"Dana Levi"}]
Vehicle == [vehicleId : VehicleIds, designation : {"Jeep"}]
Assignment == [vehicleId : VehicleIds, personId : PersonIds, stay : BOOLEAN]
ConvoyInfo == [goal : {"goal"}, date : {"date"}, time : {"time"}]

\* JavaScript null / undefined of an optional value, and a present value.
Null == << >>
Some(x) == <<x>>

\* The current values of the four subjects.
Mem == [people |-> people, vehicles |-> vehicles,
        assignments |-> assignments, convoyInfo |-> convoyInfo]

EmptyMem == [people |-> << >>, vehicles |-> << >>,
             assignments |-> << >>, convoyInfo |-> Null]

\* ------------------------------------------------------------ localStorage
\* What localStorage holds under the key: nothing, a text that is not the
\* serialization of an object, or the JSON text of an object (kept as the
\* object it denotes: a record with the keys the text has).
Absent == [kind |-> "absent"]
Text(s) == [kind |-> "text", text |-> s]
Json(obj) == [kind |-> "json", obj |-> obj]

\* JavaScript values JSON.parse can give.
JObject(obj) == [type |-> "object", obj |-> obj]
JNull == [type |-> "null"]
JNumber == [type |-> "number"]

\* JSON.stringify(data): a key whose value is undefined is left out.
JSONStringify(data) ==
  IF data.convoyInfo = Null
    THEN Json([people |-> data.people, vehicles |-> data.vehicles,
               assignments |-> data.assignments])
    ELSE Json([people |-> data.people, vehicles |-> data.vehicles,
               assignments |-> data.assignments, convoyInfo |-> data.convoyInfo])

\* JSON.parse(text): throws on a malformed text; "null" is the value null, a
\* number text is a number, an object text is the object.
JSONParse(blob) ==
  IF blob.kind = "json" THEN [threw |-> FALSE, value |-> JObject(blob.obj)]
  ELSE IF blob.text = "null" THEN [threw |-> FALSE, value |-> JNull]
  ELSE IF blob.text = "7" THEN [threw |-> FALSE, value |-> JNumber]
  ELSE [threw |-> TRUE]

\* data.people || [] (and the like): a missing key reads as undefined, and a
\* number has no keys.
ArrayOrEmpty(data, key) ==
  IF data.type = "object" /\ key \in DOMAIN data.obj THEN data.obj[key] ELSE << >>

\* data.convoyInfo || null
InfoOrNull(data) ==
  IF data.type = "object" /\ "convoyInfo" \in DOMAIN data.obj
    THEN data.obj.convoyInfo ELSE Null

\* ------------------------------------------------------------- statements
\* subject.next(value)
SubjectNext(subject, value) == [kind |-> "next", subject |-> subject, value |-> value]
\* this.saveData()
SaveDataStep == [kind |-> "save"]
\* a statement that throws (a TypeError reading a key of null, a SyntaxError
\* of JSON.parse)
ThrowStep == [kind |-> "throw"]

\* BehaviorSubject.next(value): the subject takes the value and every
\* subscriber runs at once, before next() returns.  A notification is what a
\* subscriber reads then: the four current values (generateOutput reads all
\* four) and the stored item.
Notification(subject, mem, item) ==
  [subject |-> subject, people |-> mem.people, vehicles |-> mem.vehicles,
   assignments |-> mem.assignments, convoyInfo |-> mem.convoyInfo,
   stored |-> item]

\* The four values a notified subscriber reads.
Shown(n) == [people |-> n.people, vehicles |-> n.vehicles,
             assignments |-> n.assignments, convoyInfo |-> n.convoyInfo]

\* Mutant of SaveObject: convoyInfo is left out of the serialized object.
SaveObjectNoConvoy(mem) ==
  [people |-> mem.people, vehicles |-> mem.vehicles,
   assignments |-> mem.assignments, convoyInfo |-> Null]

\* saveData(): the AppData object it serializes (convoyInfo: value || undefined).
SaveObject(mem) ==
  [people |-> mem.people, vehicles |-> mem.vehicles,
   assignments |-> mem.assignments, convoyInfo |-> mem.convoyInfo]

SaveText(mem) == JSONStringify(SaveObject(mem))

\* The statements of a body run in order from the values mem and the stored
\* item: what they leave, the notifications delivered, and whether an
\* exception ended the body (threw), setItem's in particular (saveFailed).
\* saveData() has no try/catch: when setItem throws (fail) the body ends there.
RECURSIVE Exec(_, _, _, _, _)
Exec(steps, mem, item, fail, obs) ==
  IF steps = << >>
    THEN [mem |-> mem, item |-> item, obs |-> obs, threw |-> FALSE, saveFailed |-> FALSE]
  ELSE LET s == Head(steps) IN
    CASE s.kind = "next" ->
           LET m2 == [mem EXCEPT ![s.subject] = s.value]
           IN Exec(Tail(steps), m2, item, fail,
                   Append(obs, Notification(s.subject, m2, item)))
      [] s.kind = "save" ->
           IF fail
             THEN [mem |-> mem, item |-> item, obs |-> obs,
                   threw |-> TRUE, saveFailed |-> TRUE]
             ELSE Exec(Tail(steps), mem, SaveText(mem), fail, obs)
      [] s.kind = "throw" ->
           [mem |-> mem, item |-> item, obs |-> obs,
            threw |-> TRUE, saveFailed |-> FALSE]

\* ----------------------------------------------------------------- methods
\* The four next() calls of loadData and importData.  Reading data.people of
\* null throws before the first next(); after that no read can throw.
NextAppData(data) ==
  IF data.type = "null" THEN << ThrowStep >>
  ELSE << SubjectNext("people", ArrayOrEmpty(data, "people")),
          SubjectNext("vehicles", ArrayOrEmpty(data, "vehicles")),
          SubjectNext("assignments", ArrayOrEmpty(data, "assignments")),
          SubjectNext("convoyInfo", InfoOrNull(data)) >>

\* loadData(): if (stored) { try { JSON.parse; four next() } catch { log } }.
\* A missing item and the empty string are falsy.
LoadDataBody(blob) ==
  IF blob = Absent \/ blob = Text("") THEN << >>
  ELSE LET r == JSONParse(blob)
       IN IF r.threw THEN << ThrowStep >> ELSE NextAppData(r.value)

\* Mutant of LoadData: no try/catch, the exception leaves the constructor.
LoadDataNoCatch(blob) ==
  LET r == Exec(LoadDataBody(blob), EmptyMem, blob, FALSE, << >>)
  IN [mem |-> r.mem, threw |-> r.threw]

\* The constructor: the values loadData leaves (the subjects start empty) and
\* whether an error leaves the constructor; the catch block swallows it.
LoadData(blob) ==
  LET r == Exec(LoadDataBody(blob), EmptyMem, blob, FALSE, << >>)
  IN [mem |-> r.mem, threw |-> FALSE]

\* addPerson: [...people, person]
AddPersonBody(mem, person) ==
  << SubjectNext("people", Append(mem.people, person)), SaveDataStep >>

\* Mutant of RemovePersonBody: the assignments are not filtered.
RemovePersonBodyNoCascade(mem, idNumber) ==
  << SubjectNext("people", SelectSeq(mem.people, LAMBDA p : p.idNumber # idNumber)),
     SaveDataStep >>

\* Mutant of RemovePersonBody: saveData() after each next().
RemovePersonBodySaveEach(mem, idNumber) ==
  << SubjectNext("people", SelectSeq(mem.people, LAMBDA p : p.idNumber # idNumber)),
     SaveDataStep,
     SubjectNext("assignments",
                 SelectSeq(mem.assignments, LAMBDA a : a.personId # idNumber)),
     SaveDataStep >>

\* removePerson: people.filter(idNumber !== id), assignments.filter(personId !== id)
RemovePersonBody(mem, idNumber) ==
  << SubjectNext("people", SelectSeq(mem.people, LAMBDA p : p.idNumber # idNumber)),
     SubjectNext("assignments",
                 SelectSeq(mem.assignments, LAMBDA a : a.personId # idNumber)),
     SaveDataStep >>

\* addVehicle: [...vehicles, vehicle]
AddVehicleBody(mem, vehicle) ==
  << SubjectNext("vehicles", Append(mem.vehicles, vehicle)), SaveDataStep >>

\* Mutant of RemoveVehicleBody: the assignments are not filtered.
RemoveVehicleBodyNoCascade(mem, vehicleId) ==
  << SubjectNext("vehicles", SelectSeq(mem.vehicles, LAMBDA v : v.vehicleId # vehicleId)),
     SaveDataStep >>

\* removeVehicle: vehicles.filter(vehicleId !== id), assignments.filter(vehicleId !== id)
RemoveVehicleBody(mem, vehicleId) ==
  << SubjectNext("vehicles", SelectSeq(mem.vehicles, LAMBDA v : v.vehicleId # vehicleId)),
     SubjectNext("assignments",
                 SelectSeq(mem.assignments, LAMBDA a : a.vehicleId # vehicleId)),
     SaveDataStep >>

\* findIndex over (vehicleId, personId): the first matching index, 0 when
\* none matches (the code's -1; sequences here start at 1).
FindIndex(as, assignment) ==
  LET hits == {i \in 1..Len(as) : as[i].vehicleId = assignment.vehicleId
                                  /\ as[i].personId = assignment.personId}
  IN IF hits = {} THEN 0 ELSE CHOOSE i \in hits : \A j \in hits : i <= j

\* Mutant of AddAssignmentValue: always push.
AddAssignmentValuePush(as, assignment) == Append(as, assignment)

\* Mutant of AddAssignmentValue: an existing entry is taken out and the
\* argument pushed.
AddAssignmentValueMove(as, assignment) ==
  Append(SelectSeq(as, LAMBDA a : ~(a.vehicleId = assignment.vehicleId
                                    /\ a.personId = assignment.personId)),
         assignment)

\* addAssignment: the array passed to next().
AddAssignmentValue(as, assignment) ==
  LET existingIndex == FindIndex(as, assignment)
  IN IF existingIndex >= 1
       THEN [as EXCEPT ![existingIndex] = [@ EXCEPT !.stay = assignment.stay]]
       ELSE Append(as, assignment)

AddAssignmentBody(mem, assignment) ==
  << SubjectNext("assignments", AddAssignmentValue(mem.assignments, assignment)),
     SaveDataStep >>

\* Mutant of RemoveAssignmentBody: the filter looks at vehicleId only.
RemoveAssignmentBodyByVehicle(mem, vehicleId, personId) ==
  << SubjectNext("assignments",
                 SelectSeq(mem.assignments, LAMBDA a : a.vehicleId # vehicleId)),
     SaveDataStep >>

\* removeAssignment: filter(!(vehicleId === v && personId === p))
RemoveAssignmentBody(mem, vehicleId, personId) ==
  << SubjectNext("assignments",
                 SelectSeq(mem.assignments,
                           LAMBDA a : ~(a.vehicleId = vehicleId /\ a.personId = personId))),
     SaveDataStep >>

\* Mutant of ClearAllBody: convoyInfo is cleared too.
ClearAllBodyAndInfo ==
  << SubjectNext("people", << >>), SubjectNext("vehicles", << >>),
     SubjectNext("assignments", << >>), SubjectNext("convoyInfo", Null), SaveDataStep >>

\* clearAll: people, vehicles, assignments; convoyInfo is not touched.
ClearAllBody ==
  << SubjectNext("people", << >>), SubjectNext("vehicles", << >>),
     SubjectNext("assignments", << >>), SaveDataStep >>

\* clearAssignments: assignments, then convoyInfo.
ClearAssignmentsBody ==
  << SubjectNext("assignments", << >>), SubjectNext("convoyInfo", Null), SaveDataStep >>

\* setConvoyInfo
SetConvoyInfoBody(info) == << SubjectNext("convoyInfo", Some(info)), SaveDataStep >>

\* Mutant of ExportData: convoyInfo is not exported.
ExportDataNoConvoy(mem) ==
  JObject([people |-> mem.people, vehicles |-> mem.vehicles,
           assignments |-> mem.assignments])

\* exportData(): the object it returns (convoyInfo: value || undefined).
ExportData(mem) ==
  JObject([people |-> mem.people, vehicles |-> mem.vehicles,
           assignments |-> mem.assignments, convoyInfo |-> mem.convoyInfo])

\* ---------------------------------------------------------- generateOutput
\* The labels of the report are Hebrew texts in the source; ASCII texts stand
\* for them here.
GoalLabel == "goal: "
DateLabel == "date: "
TimeLabel == "time: "
StayLabel(stay) == IF stay THEN "stay" ELSE "no stay"

\* The header block: three lines, then an empty line.
ConvoyHeader(info) ==
  GoalLabel \o info.goal \o "\n" \o DateLabel \o info.date \o "\n"
    \o TimeLabel \o info.time \o "\n\n"

\* people.find(p => p.idNumber === personId): the first match, or undefined.
FindPerson(ps, personId) ==
  LET hits == {i \in 1..Len(ps) : ps[i].idNumber = personId}
  IN IF hits = {} THEN Null ELSE Some(ps[CHOOSE i \in hits : \A j \in hits : i <= j])

Reverse(s) == [i \in 1..Len(s) |-> s[Len(s) + 1 - i]]

\* assignments.filter(vehicleId).map(person, stay), before the filter on person.
AssignedItems(mem, vehicle) ==
  LET vehicleAssignments ==
        SelectSeq(mem.assignments, LAMBDA a : a.vehicleId = vehicle.vehicleId)
  IN [i \in 1..Len(vehicleAssignments) |->
        [person |-> FindPerson(mem.people, vehicleAssignments[i].personId),
         stay |-> vehicleAssignments[i].stay]]

\* Mutant of AssignedPeople: the people of a vehicle in reverse order.
AssignedPeopleReversed(mem, vehicle) ==
  Reverse(SelectSeq(AssignedItems(mem, vehicle), LAMBDA item : item.person # Null))

\* assignedPeople: the items whose person was found.
AssignedPeople(mem, vehicle) ==
  SelectSeq(AssignedItems(mem, vehicle), LAMBDA item : item.person # Null)

\* vehicles.map(vehicle => {vehicle, people}), before the filter on people.
MappedVehicles(mem) ==
  [i \in 1..Len(mem.vehicles) |->
     [vehicle |-> mem.vehicles[i], people |-> AssignedPeople(mem, mem.vehicles[i])]]

\* Mutant of VehicleGroups: a vehicle without people keeps its group.
VehicleGroupsUnfiltered(mem) == MappedVehicles(mem)

\* vehicleGroups: the vehicles that have people.
VehicleGroups(mem) ==
  SelectSeq(MappedVehicles(mem), LAMBDA group : Len(group.people) > 0)

\* Array.prototype.join
RECURSIVE Join(_, _)
Join(strs, sep) ==
  IF strs = << >> THEN ""
  ELSE IF Len(strs) = 1 THEN strs[1]
  ELSE strs[1] \o sep \o Join(Tail(strs), sep)

VehicleHeader(vehicle) == vehicle.designation \o " " \o vehicle.vehicleId

PersonLine(item) ==
  item.person[1].fullName \o " " \o item.person[1].idNumber
    \o " - " \o StayLabel(item.stay)

\* [header, ...peopleLines] of a group
GroupLines(group) ==
  << VehicleHeader(group.vehicle) >>
    \o [i \in 1..Len(group.people) |-> PersonLine(group.people[i])]

\* vehicleOutput: the groups, lines joined by a newline, groups by an empty line.
VehicleOutput(mem) ==
  LET groups == VehicleGroups(mem)
  IN Join([i \in 1..Len(groups) |-> Join(GroupLines(groups[i]), "\n")], "\n\n")

\* generateOutput() on the four current values.
GenerateOutput(mem) ==
  (IF mem.convoyInfo # Null THEN ConvoyHeader(mem.convoyInfo[1]) ELSE "")
    \o VehicleOutput(mem)

\* importData(data): four next() calls, each with `|| []` or `|| null`, then
\* saveData().  A throwing read ends the method before saveData().
ImportDataBody(data) ==
  IF data.type = "null" THEN NextAppData(data)
  ELSE NextAppData(data) \o << SaveDataStep >>

\* The try block of App.importData on the text of the chosen file:
\* JSON.parse(text), then dataService.importData(data).
ImportFileBody(text) ==
  LET r == JSONParse(text)
  IN IF r.threw THEN << ThrowStep >> ELSE ImportDataBody(r.value)

\* The body of a call, by method.
BodyOf(op, mem) ==
  CASE op.name = "addPerson" -> AddPersonBody(mem, op.arg)
    [] op.name = "removePerson" -> RemovePersonBody(mem, op.arg)
    [] op.name = "addVehicle" -> AddVehicleBody(mem, op.arg)
    [] op.name = "removeVehicle" -> RemoveVehicleBody(mem, op.arg)
    [] op.name = "addAssignment" -> AddAssignmentBody(mem, op.arg)
    [] op.name = "removeAssignment" -> RemoveAssignmentBody(mem, op.arg[1], op.arg[2])
    [] op.name = "clearAll" -> ClearAllBody
    [] op.name = "clearAssignments" -> ClearAssignmentsBody
    [] op.name = "setConvoyInfo" -> SetConvoyInfoBody(op.arg)
    [] op.name = "importData" -> ImportFileBody(op.arg)
    [] op.name = "importExported" -> ImportDataBody(ExportData(mem))
    [] OTHER -> << >>

\* App.output$ is combineLatest([people$, vehicles$, assignments$]) mapped to
\* generateOutput(): it emits at every next() of one of these three subjects,
\* and the value is generateOutput() on the values of that moment.  Given the
\* notifications of a call and the values read at the latest emission before
\* it, the values read at the latest emission after it.
Emitted(obs, before) ==
  LET emits == {i \in 1..Len(obs) : obs[i].subject \in {"people", "vehicles", "assignments"}}
  IN IF emits = {} THEN before
     ELSE Shown(obs[CHOOSE i \in emits : \A j \in emits : j <= i])

\* The latest value emitted by output$.
output == GenerateOutput(emittedAt)

\* One call of a method: its body run to its end or to the exception.  At
\* most MaxFailures setItem calls in a row throw.
Call(op) ==
  \E fail \in BOOLEAN :
    /\ fail => failures < MaxFailures
    /\ \E r \in {Exec(BodyOf(op, Mem), Mem, stored, fail, << >>)} :
          /\ people' = r.mem.people
          /\ vehicles' = r.mem.vehicles
          /\ assignments' = r.mem.assignments
          /\ convoyInfo' = r.mem.convoyInfo
          /\ stored' = r.item
          /\ saveFailed' = r.saveFailed
          /\ notifiedOld' = \A i \in 1..Len(r.obs) : r.obs[i].stored = stored
          /\ emittedAt' = Emitted(r.obs, emittedAt)
          /\ outcome' = IF r.threw THEN "threw" ELSE "returned"
          /\ failures' = IF r.saveFailed THEN failures + 1
                          ELSE IF r.threw THEN failures ELSE 0
    /\ lastOp' = op

\* The notifications the step delivers, in order (the step is the call lastOp').
Delivered == Exec(BodyOf(lastOp', Mem), Mem, stored, saveFailed', << >>).obs

AddPerson(person) ==
  /\ Len(people) < MaxPeople
  /\ Call([name |-> "addPerson", arg |-> person])
  /\ UNCHANGED <<calls, snapshot, aliased>>

RemovePerson(idNumber) ==
  /\ Call([name |-> "removePerson", arg |-> idNumber])
  /\ UNCHANGED <<calls, snapshot, aliased>>

AddVehicle(vehicle) ==
  /\ Len(vehicles) < MaxVehicles
  /\ Call([name |-> "addVehicle", arg |-> vehicle])
  /\ UNCHANGED <<calls, snapshot, aliased>>

RemoveVehicle(vehicleId) ==
  /\ Call([name |-> "removeVehicle", arg |-> vehicleId])
  /\ UNCHANGED <<calls, snapshot, aliased>>

\* The bound applies to a call that appends only.
AddAssignmentCall(assignment) ==
  /\ FindIndex(assignments, assignment) = 0 => Len(assignments) < MaxAssign
  /\ Call([name |-> "addAssignment", arg |-> assignment])

AddAssignment(assignment) ==
  /\ AddAssignmentCall(assignment)
  /\ UNCHANGED <<calls, snapshot, aliased>>

RemoveAssignment(vehicleId, personId) ==
  /\ Call([name |-> "removeAssignment", arg |-> <<vehicleId, personId>>])
  /\ UNCHANGED <<calls, snapshot, aliased>>

ClearAll ==
  /\ Call([name |-> "clearAll"])
  /\ UNCHANGED <<calls, snapshot, aliased>>

ClearAssignments ==
  /\ Call([name |-> "clearAssignments"])
  /\ UNCHANGED <<calls, snapshot, aliased>>

SetConvoyInfo(info) ==
  /\ Call([name |-> "setConvoyInfo", arg |-> info])
  /\ UNCHANGED <<calls, snapshot, aliased>>

\* App.importData on a file with the given text.  Its catch block shows the
\* alert; outcome = "threw" then says that the try block threw.
ImportData(text) ==
  /\ Call([name |-> "importData", arg |-> text])
  /\ UNCHANGED <<calls, snapshot, aliased>>

\* importData(exportData())
ImportExported ==
  /\ Call([name |-> "importExported"])
  /\ UNCHANGED <<calls, snapshot, aliased>>

\* ------------------------------------------------------------------ inputs
P1 == [idNumber |-> "1234567", fullName |-> "Dana Levi"]
P2 == [idNumber |-> "7654321", fullName |-> "Dana Levi"]
V1 == [vehicleId |-> "12345", designation |-> "Jeep"]
A(v, p, s) == [vehicleId |-> v, personId |-> p, stay |-> s]
Info == [goal |-> "goal", date |-> "date", time |-> "time"]

\* Objects a valid JSON text can denote: a key missing and an explicit null
\* convoyInfo, the same pair twice, assignments whose vehicle or person is not
\* there.
SnapshotInputs ==
  { [people |-> <<P1, P2>>,
     assignments |-> <<A("12345", "1234567", TRUE), A("12345", "1234567", FALSE)>>,
     convoyInfo |-> Null],
    [people |-> <<P1>>, vehicles |-> <<V1>>,
     assignments |-> <<A("12345", "1234567", TRUE), A("12345", "7654321", FALSE)>>,
     convoyInfo |-> Some(Info)] }

\* Texts of the files handed to App.importData: object texts and a text that
\* does not parse.
ImportInputs == { Json(d) : d \in SnapshotInputs } \cup { Text("{bad") }

\* What the item may hold when the service is constructed.
InitialBlobs ==
  { Absent, Text(""), Text("{bad"), Text("null"), Text("7") }
  \cup { Json(d) : d \in SnapshotInputs }

\* ----------------------------------------------------------- specification
\* The state after the constructor has run loadData() on the item `blob`.
\* Nothing is subscribed yet, so its next() calls notify nobody; output$ is
\* subscribed afterwards and emits generateOutput() on the loaded values.
Constructed(blob) ==
  LET r == LoadData(blob)
  IN /\ stored = blob
     /\ people = r.mem.people
     /\ vehicles = r.mem.vehicles
     /\ assignments = r.mem.assignments
     /\ convoyInfo = r.mem.convoyInfo
     /\ outcome = IF r.threw THEN "threw" ELSE "returned"
     /\ lastOp = [name |-> "constructor"]
     /\ saveFailed = FALSE
     /\ notifiedOld = TRUE
     /\ emittedAt = r.mem
     /\ failures = 0
     /\ calls = << >>
     /\ snapshot = Null
     /\ aliased = {}

Init == \E blob \in InitialBlobs : Constructed(blob)

Next ==
  \/ \E p \in Person : AddPerson(p)
  \/ \E id \in PersonIds : RemovePerson(id)
  \/ \E v \in Vehicle : AddVehicle(v)
  \/ \E id \in VehicleIds : RemoveVehicle(id)
  \/ \E a \in Assignment : AddAssignment(a)
  \/ \E v \in VehicleIds, p \in PersonIds : RemoveAssignment(v, p)
  \/ ClearAll
  \/ ClearAssignments
  \/ \E info \in ConvoyInfo : SetConvoyInfo(info)
  \/ \E text \in ImportInputs : ImportData(text)
  \/ ImportExported

Spec == Init /\ [][Next]_vars

\* A run of addAssignment calls alone, from a store that holds at most one
\* entry per pair (the constructor loaded such a snapshot); calls logs the
\* arguments.
SeqsUpTo(S, n) == UNION { [1..k -> S] : k \in 0..n }

UniquePairs(as) ==
  \A i, j \in 1..Len(as) :
    (as[i].vehicleId = as[j].vehicleId /\ as[i].personId = as[j].personId) => i = j

InitAdd ==
  \E as \in { x \in SeqsUpTo(Assignment, MaxAssign) : UniquePairs(x) } :
    Constructed(SaveText([people |-> <<P1, P2>>, vehicles |-> <<V1>>,
                          assignments |-> as, convoyInfo |-> Null]))

LogAddAssignment(assignment) ==
  /\ Len(calls) < MaxCalls
  /\ AddAssignmentCall(assignment)
  /\ calls' = Append(calls, assignment)
  /\ UNCHANGED <<snapshot, aliased>>

NextAdd == \E a \in Assignment : LogAddAssignment(a)

SpecAdd == InitAdd /\ [][NextAdd]_vars

\* The report of a store with two vehicle ids: the constructor loaded people
\* and vehicles without repeated ids, and assignments in any order with at
\* most one entry per pair, some of them of a person or a vehicle that is not
\* there; addAssignment calls follow.
V2 == [vehicleId |-> "54321", designation |-> "Truck"]

ReportAssignment ==
  [vehicleId : {V1.vehicleId, V2.vehicleId}, personId : PersonIds, stay : BOOLEAN]

ReportPeople == { <<P1>>, <<P2, P1>> }
ReportVehicles == { <<V2>>, <<V2, V1>> }

InitReport ==
  \E ps \in ReportPeople, vs \in ReportVehicles, info \in {Null, Some(Info)} :
    \E as \in { x \in SeqsUpTo(ReportAssignment, MaxAssign) : UniquePairs(x) } :
      Constructed(SaveText([people |-> ps, vehicles |-> vs,
                            assignments |-> as, convoyInfo |-> info]))

NextReport == \E a \in ReportAssignment : AddAssignment(a)

SpecReport == InitReport /\ [][NextReport]_vars

\* exportData() and a caller that changes the object it got.  The object
\* holds the arrays of the subjects themselves, and the ConvoyInfo object
\* itself when there is one (undefined otherwise): a key is aliased as long as
\* the subject holds that object.  Every store method hands next() an array
\* it has built, so a call ends the aliasing of the subjects it sets.
SharedKeys(mem) ==
  {"people", "vehicles", "assignments"}
    \cup (IF mem.convoyInfo # Null THEN {"convoyInfo"} ELSE {})

ExportSnapshot ==
  /\ snapshot' = Some(ExportData(Mem).obj)
  /\ aliased' = SharedKeys(Mem)
  /\ lastOp' = [name |-> "exportData"]
  /\ outcome' = "returned"
  /\ saveFailed' = FALSE
  /\ notifiedOld' = TRUE
  /\ UNCHANGED <<people, vehicles, assignments, convoyInfo, stored,
                 emittedAt, failures, calls>>

\* The caller pushes a person onto the people array of the object it got:
\* no next(), no saveData().
CallerPush(person) ==
  /\ snapshot # Null
  /\ Len(snapshot[1].people) < MaxPeople
  /\ snapshot' = Some([snapshot[1] EXCEPT !.people = Append(@, person)])
  /\ people' = IF "people" \in aliased THEN Append(people, person) ELSE people
  /\ lastOp' = [name |-> "callerPush", arg |-> person]
  /\ outcome' = "returned"
  /\ saveFailed' = FALSE
  /\ notifiedOld' = TRUE
  /\ UNCHANGED <<vehicles, assignments, convoyInfo, stored,
                 emittedAt, failures, calls, aliased>>

\* The caller assigns the goal of the convoyInfo of the object it got.
CallerSetGoal ==
  /\ snapshot # Null
  /\ snapshot[1].convoyInfo # Null
  /\ snapshot[1].convoyInfo[1].goal # "changed"
  /\ snapshot' = Some([snapshot[1] EXCEPT !.convoyInfo[1].goal = "changed"])
  /\ convoyInfo' = IF "convoyInfo" \in aliased
                     THEN Some([convoyInfo[1] EXCEPT !.goal = "changed"])
                     ELSE convoyInfo
  /\ lastOp' = [name |-> "callerSetGoal"]
  /\ outcome' = "returned"
  /\ saveFailed' = FALSE
  /\ notifiedOld' = TRUE
  /\ UNCHANGED <<people, vehicles, assignments, stored,
                 emittedAt, failures, calls, aliased>>

\* A store method called while a caller holds the object.
AliasCall(op) ==
  /\ Call(op)
  /\ aliased' = aliased \ { Delivered[i].subject : i \in 1..Len(Delivered) }
  /\ UNCHANGED <<calls, snapshot>>

AliasAddPerson(person) ==
  /\ Len(people) < MaxPeople
  /\ AliasCall([name |-> "addPerson", arg |-> person])

AliasRemovePerson(idNumber) == AliasCall([name |-> "removePerson", arg |-> idNumber])

AliasSetConvoyInfo(info) == AliasCall([name |-> "setConvoyInfo", arg |-> info])

AliasClearAll == AliasCall([name |-> "clearAll"])

NextAlias ==
  \/ ExportSnapshot
  \/ \E p \in Person : CallerPush(p)
  \/ CallerSetGoal
  \/ \E p \in Person : AliasAddPerson(p)
  \/ \E id \in PersonIds : AliasRemovePerson(id)
  \/ \E info \in ConvoyInfo : AliasSetConvoyInfo(info)
  \/ AliasClearAll

SpecAlias == Init /\ [][NextAlias]_vars

\* Guarded use from the empty store: addAssignment is called as App.addAssignment
\* calls it, with the ids of a vehicle and a person the store holds, and
\* nothing is imported.
GuardedAddAssignment(assignment) ==
  /\ \E i \in 1..Len(vehicles) : vehicles[i].vehicleId = assignment.vehicleId
  /\ \E i \in 1..Len(people) : people[i].idNumber = assignment.personId
  /\ AddAssignment(assignment)

InitGuarded == Constructed(Absent)

NextGuarded ==
  \/ \E p \in Person : AddPerson(p)
  \/ \E id \in PersonIds : RemovePerson(id)
  \/ \E v \in Vehicle : AddVehicle(v)
  \/ \E id \in VehicleIds : RemoveVehicle(id)
  \/ \E a \in Assignment : GuardedAddAssignment(a)
  \/ \E v \in VehicleIds, p \in PersonIds : RemoveAssignment(v, p)
  \/ ClearAll
  \/ ClearAssignments
  \/ \E info \in ConvoyInfo : SetConvoyInfo(info)

SpecGuarded == InitGuarded /\ [][NextGuarded]_vars

\* ------------------------------------------------------------------ claims
SamePair(a, b) == a.vehicleId = b.vehicleId /\ a.personId = b.personId
Entries(as, a) == { i \in 1..Len(as) : SamePair(as[i], a) }
Last(S) == CHOOSE i \in S : \A j \in S : j <= i

\* C1: after a run of addAssignment calls from a store with at most one entry
\* per pair, a pair added more than once has exactly one entry in
\* assignments, and its stay is the stay of the last call for that pair.
C1_LastStayWins ==
  \A a \in Assignment :
    Cardinality(Entries(calls, a)) >= 2 =>
      /\ Cardinality(Entries(assignments, a)) = 1
      /\ \A i \in Entries(assignments, a) :
           assignments[i].stay = calls[Last(Entries(calls, a))].stay

\* A pair added twice with different stay values, last one false, beside an
\* entry of another pair.
C1_Witness ==
  /\ Len(calls) >= 2
  /\ SamePair(calls[1], calls[Len(calls)])
  /\ calls[1].stay /\ ~calls[Len(calls)].stay
  /\ Len(assignments) = 2

\* C2: after removePerson(X) no assignment has personId X, and after
\* removeVehicle(V) no assignment has vehicleId V, however the call ended.
C2_CascadeOnDelete ==
  /\ lastOp.name = "removePerson" =>
       \A i \in 1..Len(assignments) : assignments[i].personId # lastOp.arg
  /\ lastOp.name = "removeVehicle" =>
       \A i \in 1..Len(assignments) : assignments[i].vehicleId # lastOp.arg

\* removePerson(X) has run on a state that held an assignment of X: its
\* setItem threw, so the item still shows the state before the call.
C2_Witness ==
  /\ lastOp.name = "removePerson"
  /\ saveFailed
  /\ stored.kind = "json"
  /\ "assignments" \in DOMAIN stored.obj
  /\ \E i \in 1..Len(stored.obj.assignments) :
       stored.obj.assignments[i].personId = lastOp.arg
  /\ assignments # << >>

\* C3: I1, no two people share an idNumber and no two vehicles a vehicleId.
C3_UniqueIds ==
  /\ \A i, j \in 1..Len(people) : people[i].idNumber = people[j].idNumber => i = j
  /\ \A i, j \in 1..Len(vehicles) : vehicles[i].vehicleId = vehicles[j].vehicleId => i = j

\* C4: I2, no two assignments share a (vehicleId, personId) pair.
C4_UniqueAssignmentPairs == UniquePairs(assignments)

\* C5: every notification of a call shows the four values either all as they
\* were before the call or all as they are after it.
C5_NoTornNotification ==
  [][\A d \in {Delivered} : \A i \in 1..Len(d) :
       Shown(d[i]) = Mem \/ Shown(d[i]) = Mem']_vars

C7_PersistedMatchesMemory ==
  (lastOp.name # "constructor" /\ outcome = "returned") =>
    LoadData(stored) = [mem |-> Mem, threw |-> FALSE]

\* clearAssignments returned: convoyInfo is null and the item has no such key.
C7_Witness ==
  /\ lastOp.name = "clearAssignments"
  /\ outcome = "returned"
  /\ people # << >>
  /\ convoyInfo = Null
  /\ "convoyInfo" \notin DOMAIN stored.obj

\* C8: when setItem throws during a call, the call returns normally and the
\* subjects hold the call's full update.
C8_SaveFailureCaught ==
  [][saveFailed' =>
       /\ outcome' = "returned"
       /\ Mem' = Exec(BodyOf(lastOp', Mem), Mem, stored, FALSE, << >>).mem]_vars

\* C9 as stated: importData(exportData()) leaves the four values and the
\* stored item as they were.
C9_RoundTripIdentity ==
  [][lastOp'.name = "importExported" => (Mem' = Mem /\ stored' = stored)]_vars

\* C9 as amended: importData(exportData()) leaves the four values as they
\* were; it writes the item again, so a returning call leaves the
\* serialization of those values, which is the old item only if the old item
\* was that serialization; a throwing setItem leaves the old item.
C9_RoundTripMemory ==
  [][lastOp'.name = "importExported" =>
       /\ Mem' = Mem
       /\ outcome' = "returned" => stored' = SaveText(Mem)
       /\ outcome' = "threw" => stored' = stored
       /\ stored = SaveText(Mem) => stored' = stored]_vars

\* A round trip that returned, with convoyInfo set and two assignments.
C9_Witness ==
  /\ lastOp.name = "importExported"
  /\ outcome = "returned"
  /\ convoyInfo # Null
  /\ Len(assignments) = 2
  /\ people # << >>

\* C10: the constructor on a missing item, on a text that does not parse and
\* on a text that parses to null leaves the four subjects empty, and no
\* error leaves it.
Unreadable(blob) ==
  \/ blob = Absent
  \/ blob.kind = "text" /\ (JSONParse(blob).threw \/ JSONParse(blob).value = JNull)

C10_UnreadableLoadsEmpty ==
  (lastOp.name = "constructor" /\ Unreadable(stored)) =>
    (Mem = EmptyMem /\ outcome = "returned")

\* The constructor has run on a text that does not parse.
C10_Witness ==
  /\ lastOp.name = "constructor"
  /\ stored = Text("{bad")
  /\ Mem = EmptyMem

\* The alert of App.importData's catch block was shown by the last call.
Alerted == lastOp.name = "importData" /\ outcome = "threw"

\* C11: importing a text that does not parse shows the alert and leaves the
\* four values and the stored item as they were, and the alert is shown only
\* by an import that altered none of them.
C11_ImportErrorLeavesState ==
  [][lastOp'.name = "importData" =>
       /\ JSONParse(lastOp'.arg).threw => (Alerted' /\ Mem' = Mem /\ stored' = stored)
       /\ Alerted' => (Mem' = Mem /\ stored' = stored)]_vars

\* An assignment of a person who is in people.
Resolvable(a) == \E i \in 1..Len(people) : people[i].idNumber = a.personId

\* A vehicle with an assignment of a person who is in people.
Occupied(v) ==
  \E i \in 1..Len(assignments) :
    assignments[i].vehicleId = v.vehicleId /\ Resolvable(assignments[i])

\* The groups of the report, each the lines of its text, first its header.
ReportGroupsOf(mem) ==
  LET groups == VehicleGroups(mem)
  IN [i \in 1..Len(groups) |-> GroupLines(groups[i])]

ReportGroups == ReportGroupsOf(Mem)

\* C12: the report has a group for a vehicle only if an assignment has its
\* vehicleId and the idNumber of a person in people; when no vehicle has such
\* an assignment the report is the header block if convoyInfo is set and the
\* empty string otherwise.
C12_ReportOmitsEmptyGroups ==
  /\ \A groups \in {ReportGroups} : \A i \in 1..Len(vehicles) :
       (\E g \in 1..Len(groups) : groups[g][1] = VehicleHeader(vehicles[i]))
         => Occupied(vehicles[i])
  /\ (\A i \in 1..Len(vehicles) : ~Occupied(vehicles[i])) =>
       GenerateOutput(Mem) = IF convoyInfo # Null THEN ConvoyHeader(convoyInfo[1]) ELSE ""

\* Two vehicles, one with an assignment of a person in people and one whose
\* only assignment is of a person who is not there.
C12_Witness ==
  /\ Len(vehicles) = 2
  /\ people = <<P1>>
  /\ Len(assignments) = 2
  /\ assignments[1].vehicleId # assignments[2].vehicleId
  /\ assignments[1].personId = "7654321" /\ assignments[2].personId = "1234567"
  /\ Len(ReportGroups) = 1

\* The line of an assignment of a person in people.
LineOf(a) == PersonLine([person |-> FindPerson(people, a.personId), stay |-> a.stay])

\* All lines of the report's groups, in order.
RECURSIVE Flatten(_)
Flatten(ss) == IF ss = << >> THEN << >> ELSE Head(ss) \o Flatten(Tail(ss))

ReportLines(mem) == Flatten(ReportGroupsOf(mem))

\* The groups follow the order of vehicles and the lines of a group the order
\* of assignments.
ReportInOrder ==
  \A groups \in {ReportGroups}, occupied \in {SelectSeq(vehicles, Occupied)} :
     /\ Len(groups) = Len(occupied)
     /\ \A g \in 1..Len(groups) :
          LET mine == SelectSeq(assignments,
                                LAMBDA a : a.vehicleId = occupied[g].vehicleId
                                           /\ Resolvable(a))
          IN groups[g] =
               << VehicleHeader(occupied[g]) >> \o [k \in 1..Len(mine) |-> LineOf(mine[k])]

\* addAssignment of a pair that has an entry leaves every line of the report
\* in its place; only lines of that pair change.
StayUpdateKeepsPlace ==
  (lastOp'.name = "addAssignment" /\ Entries(assignments, lastOp'.arg) # {}) =>
    \A old \in {ReportLines(Mem)}, new \in {ReportLines(Mem')} :
       /\ Len(new) = Len(old)
       /\ \A k \in 1..Len(old) :
            new[k] # old[k] =>
              /\ Resolvable(lastOp'.arg)
              /\ new[k] = LineOf(lastOp'.arg)
              /\ old[k] = LineOf([lastOp'.arg EXCEPT !.stay = ~lastOp'.arg.stay])

\* C13: the groups of the report follow the order of vehicles, the lines of a
\* group follow the order of assignments, and an addAssignment that updates
\* the stay of an entry does not move its line.
C13_ReportOrder == []ReportInOrder /\ [][StayUpdateKeepsPlace]_vars

\* An addAssignment has changed the stay of the first of two entries of one
\* vehicle, whose lines are in the order of assignments.
C13_Witness ==
  /\ lastOp.name = "addAssignment"
  /\ people = <<P2, P1>>
  /\ Len(assignments) = 2
  /\ assignments[1] = [vehicleId |-> "54321", personId |-> "1234567", stay |-> FALSE]
  /\ assignments[2].vehicleId = "54321" /\ assignments[2].personId = "7654321"
  /\ Len(vehicles) = 2
  /\ lastOp.arg = assignments[1]
  /\ stored.obj.assignments[1].stay
  /\ Len(ReportGroups) = 1 /\ Len(ReportGroups[1]) = 3

\* The convoyInfo of the persisted snapshot, as the constructor reads it.
PersistedInfo(item) == LoadData(item).mem.convoyInfo

\* C14 as stated: clearAll() empties people, vehicles and assignments and
\* leaves convoyInfo as it was, in memory and in the persisted snapshot.
C14_ClearAllKeepsConvoyInfo ==
  [][lastOp'.name = "clearAll" =>
       /\ people' = << >> /\ vehicles' = << >> /\ assignments' = << >>
       /\ convoyInfo' = convoyInfo
       /\ PersistedInfo(stored') = PersistedInfo(stored)]_vars

\* C14 as amended: clearAll() empties people, vehicles and assignments and
\* leaves the convoyInfo in memory as it was; when its write succeeds the
\* persisted snapshot holds three empty collections and that convoyInfo,
\* which is the convoyInfo persisted before whenever the persisted one matched
\* memory before the call; when its write fails the item is left as it was.
C14_ClearAllKeepsMemoryInfo ==
  [][lastOp'.name = "clearAll" =>
       /\ people' = << >> /\ vehicles' = << >> /\ assignments' = << >>
       /\ convoyInfo' = convoyInfo
       /\ ~saveFailed' => LoadData(stored').mem = [EmptyMem EXCEPT !.convoyInfo = convoyInfo]
       /\ saveFailed' => stored' = stored
       /\ PersistedInfo(stored) = convoyInfo =>
            PersistedInfo(stored') = PersistedInfo(stored)]_vars

\* clearAll() has returned on a store with convoyInfo set, which is still
\* there and persisted, and output$ has emitted the report of the cleared
\* store.
C14_Witness ==
  /\ lastOp.name = "clearAll"
  /\ outcome = "returned"
  /\ Mem = [EmptyMem EXCEPT !.convoyInfo = Some(Info)]
  /\ stored = SaveText(Mem)
  /\ emittedAt = Mem

\* C15: clearAssignments() empties assignments, clears convoyInfo and leaves
\* people and vehicles; no notification and no persisted snapshot shows the
\* emptied assignments together with the convoyInfo from before the call.
C15_ClearAssignmentsSingleTransition ==
  [][lastOp'.name = "clearAssignments" =>
       /\ assignments' = << >> /\ convoyInfo' = Null
       /\ people' = people /\ vehicles' = vehicles
       /\ (assignments # << >> /\ convoyInfo # Null) =>
            /\ \A d \in {Delivered} : \A i \in 1..Len(d) :
                 ~(d[i].assignments = << >> /\ d[i].convoyInfo = convoyInfo)
            /\ ~(LoadData(stored').mem.assignments = << >>
                 /\ PersistedInfo(stored') = convoyInfo)]_vars

\* C16: a change the caller makes to the object exportData() returned leaves
\* the four values of the store as they were, and a store method leaves an
\* object returned before as it was.
C16_ExportByValue ==
  [][/\ lastOp'.name \in {"callerPush", "callerSetGoal"} => Mem' = Mem
     /\ lastOp'.name \notin {"callerPush", "callerSetGoal", "exportData"} =>
          snapshot' = snapshot]_vars

\* C17: addAssignment(a) of a pair that has an entry changes the stay of one
\* such entry and nothing else: the length, the place of the entry and every
\* other entry stay, as do people, vehicles and convoyInfo; of a pair that
\* has no entry it appends a and the entries before keep their places.
C17_AddAssignmentFrame ==
  [][lastOp'.name = "addAssignment" =>
       LET a == lastOp'.arg IN
       /\ people' = people /\ vehicles' = vehicles /\ convoyInfo' = convoyInfo
       /\ Entries(assignments, a) # {} =>
            /\ Len(assignments') = Len(assignments)
            /\ \E i \in Entries(assignments, a) :
                 /\ assignments'[i] = [assignments[i] EXCEPT !.stay = a.stay]
                 /\ \A j \in 1..Len(assignments) :
                      j # i => assignments'[j] = assignments[j]
       /\ Entries(assignments, a) = {} =>
            /\ Len(assignments') = Len(assignments) + 1
            /\ assignments'[Len(assignments')] = a
            /\ \A j \in 1..Len(assignments) : assignments'[j] = assignments[j]]_vars

\* addAssignment has changed the stay of the first of two entries: its
\* setItem threw, so the item still shows the entry with the stay it had.
C17_Witness ==
  /\ lastOp.name = "addAssignment"
  /\ saveFailed
  /\ Len(assignments) = 2
  /\ SamePair(assignments[1], lastOp.arg)
  /\ ~SamePair(assignments[2], lastOp.arg)
  /\ stored.kind = "json"
  /\ "assignments" \in DOMAIN stored.obj
  /\ Len(stored.obj.assignments) = 2
  /\ stored.obj.assignments[1].stay # assignments[1].stay
  /\ stored.obj.assignments[2] = assignments[2]

\* The entries of a sequence that satisfy Keep, in their order.
Kept(seq, Keep(_)) == SelectSeq(seq, Keep)

C19_NoDanglingAssignment ==
  outcome = "returned" =>
    \A i \in 1..Len(assignments) :
      /\ \E k \in 1..Len(people) : people[k].idNumber = assignments[i].personId
      /\ \E k \in 1..Len(vehicles) : vehicles[k].vehicleId = assignments[i].vehicleId

\* A guarded addAssignment has returned: the store holds its assignment, the
\* person and two entries of the vehicle.
C19_Witness ==
  /\ lastOp.name = "addAssignment"
  /\ outcome = "returned"
  /\ Len(assignments) = 1
  /\ Len(vehicles) = 2
  /\ Len(people) = 1

\* C20: after a call of a store method returns, the value output$ emitted
\* last is generateOutput() on the current values.
C20_OutputFresh ==
  (lastOp.name # "constructor" /\ outcome = "returned") => output = GenerateOutput(Mem)

====
